---- MODULE Spec2Model ----
(***************************************************************************)
(* The order aggregate store of src/main.py: the tables "order" and        *)
(* "orderproduct" and the five request handlers, each split at the points  *)
(* where it talks to the database, so that the requests of two sessions    *)
(* interleave exactly where the code lets them.                            *)
(*                                                                         *)
(* The database is the one create_engine(DATABASE_URL) connects to: MySQL  *)
(* (InnoDB) at its default isolation level.  What the model keeps of it:   *)
(*   - a plain SELECT reads the committed rows;                            *)
(*   - INSERT / UPDATE / DELETE act on the latest committed rows and wait  *)
(*     (the action is not enabled) while another open transaction holds a  *)
(*     lock on what they touch;                                            *)
(*   - the UNIQUE index on order.order_number and the FOREIGN KEY          *)
(*     orderproduct.order_id -> order.id reject a violating statement;     *)
(*   - the rows a transaction wrote become visible at COMMIT, and are      *)
(*     dropped when the request ends without it (Session.__exit__).        *)
(* What the model keeps of the ORM: the unit of work sends its statements  *)
(* at flush (before Query.delete() and inside commit()), and an UPDATE     *)
(* sets only the columns whose value differs from the loaded one.          *)
(* A handler reads the scalar fields of its request body when it builds or *)
(* overwrites the Order and the products in its loop; each part is drawn   *)
(* at the action that first reads it.  Amounts are in hundredths.          *)
(*                                                                         *)
(* Spec runs two sessions against each other, with the order number and    *)
(* the number of products of a request varying; SeqSpec runs one session,  *)
(* with every field of the request varying; RaceSpec runs one update_order *)
(* in each session against an order that a create_order has stored.        *)
(***************************************************************************)
EXTENDS Integers, Sequences, FiniteSets, TLC

\* Bounds of the model.
MaxOrderId == 2
MaxItemId == 2
MaxLen == 2

Sessions == {"s1", "s2"}
OrderNumbers == {"A1", "B2"}
Dates == {"2024-01-01", "2024-01-02"}
Prices == {1998, 2500}
Lines ==
  { [product_id |-> 1, quantity |-> 2, unit_price |-> 999],
    [product_id |-> 2, quantity |-> 1, unit_price |-> 500] }

OrderIds == 1..MaxOrderId
\* ids a request may name: those the store can hold, and one it never holds
RequestIds == 1..(MaxOrderId + 1)

SeqsUpTo(S, n) == UNION { [1..k -> S] : k \in 0..n }

\* OrderProductSchema (without the unused name)
OrderProductSchema == Lines
\* OrderSchema.products
ProductLists == SeqsUpTo(OrderProductSchema, MaxLen)
\* OrderSchema.order_number, date, final_price
OrderFields == [order_number : OrderNumbers, date : Dates, final_price : Prices]

\* the requests of Spec and RaceSpec: one date and price, no or one product
SameDay == { r \in OrderFields : r.date = "2024-01-01" /\ r.final_price = 1998 }
SameLine == { << >>, <<[product_id |-> 1, quantity |-> 2, unit_price |-> 999]>> }

\* the requests of SeqSpec: two bodies for each order number, which differ in
\* date and in price
TwoDays ==
  { r \in OrderFields : (r.date = "2024-01-01") <=> (r.final_price = 1998) }

NoRow == [order_number |-> "", date |-> "", final_price |-> 0]
NoRes == "none"
NoneSent == [fields |-> NoRow, products |-> << >>]
Columns == {"order_number", "date", "final_price"}

VARIABLES
  orders,       \* table "order", committed rows: id -> [order_number, date, final_price]
  items,        \* table "orderproduct", committed rows: id -> [order_id, product_id, quantity, unit_price]
  nextOrderId,  \* AUTO_INCREMENT of order.id
  nextItemId,   \* AUTO_INCREMENT of orderproduct.id
  pc,           \* per session: where its handler stands
  oid,          \* per session: the order id of the request (db_order.id in create)
  req,          \* per session: the scalar fields of the request body
  loaded,       \* per session: the Order row as session.get loaded it
  pend,         \* per session: orderproduct ids it selected or deleted
  res,          \* per session: outcome of its last finished request
  sent          \* per session, RaceSpec only: the request body as it was read

vars ==
  <<orders, items, nextOrderId, nextItemId, pc, oid, req, loaded, pend, res, sent>>
store == <<orders, items>>

\* ---------------------------------------------------------------- tables

\* Order(order_number=..., date=..., final_price=...)
Order(r) ==
  [order_number |-> r.order_number, date |-> r.date, final_price |-> r.final_price]

\* OrderProduct(order_id=..., product_id=..., quantity=..., unit_price=...)
OrderProduct(o, p) ==
  [order_id |-> o, product_id |-> p.product_id, quantity |-> p.quantity,
   unit_price |-> p.unit_price]

\* session.get(Order, order_id) finds a row
Exists(o) == o \in DOMAIN orders

\* select(OrderProduct).where(OrderProduct.order_id == order_id): the ids
ProductsOf(o) == { i \in DOMAIN items : items[i].order_id = o }

Remove(f, S) == [x \in DOMAIN f \ S |-> f[x]]

\* the ids the AUTO_INCREMENT gives to n new rows
NewIds(n) == nextItemId..(nextItemId + n - 1)

\* mutant of NewItems: the loop builds every row from the first product
NewItemsFromFirst(o, ps) ==
  [i \in NewIds(Len(ps)) |-> OrderProduct(o, ps[1])]

\* the rows the INSERTs of one flush add
NewItems(o, ps) ==
  [i \in NewIds(Len(ps)) |-> OrderProduct(o, ps[i - nextItemId + 1])]

\* mutant of NumberTaken: order_number is declared without unique=True
NumberNeverTaken(n, self) == FALSE

\* mutant of NumberTaken: the number is looked up before an INSERT only
NumberTakenOnInsert(n, self) ==
  self = 0 /\ \E o \in DOMAIN orders : orders[o].order_number = n

\* UNIQUE(order_number): a committed row other than self holds the number
NumberTaken(n, self) ==
  \E o \in DOMAIN orders : o # self /\ orders[o].order_number = n

\* the columns the UPDATE of a loaded row sets: those assigned another value
Changed(old, r) == { c \in Columns : old[c] # r[c] }

\* the row after that UPDATE
Updated(row, old, r) ==
  [c \in Columns |-> IF c \in Changed(old, r) THEN r[c] ELSE row[c]]

\* mutant of ParentExists: order_id is declared without foreign_key
ParentNotChecked(o) == TRUE

\* FOREIGN KEY(order_id), on INSERT INTO orderproduct: the order row is there
ParentExists(o) == Exists(o)

\* mutant of StillReferenced: order_id is declared without foreign_key
NeverReferenced(o, deleted) == FALSE

\* FOREIGN KEY(order_id), on DELETE FROM order: rows of orderproduct outside
\* `deleted` reference o
StillReferenced(o, deleted) == ProductsOf(o) \ deleted # {}

\* ---------------------------------------------------------------- locks

\* session t has sent update_order's UPDATE and DELETE for o and not committed
InGap(t, o) == pc[t] = "u_commit" /\ oid[t] = o

\* another transaction holds the row lock its UPDATE took on order o
RowLocked(s, o) ==
  \E t \in Sessions \ {s} : InGap(t, o) /\ Changed(loaded[t], req[t]) # {}

\* another transaction holds the locks of orderproduct rows of o it deleted
ItemsLocked(s, o) ==
  \E t \in Sessions \ {s} : InGap(t, o) /\ pend[t] # {}

\* another transaction holds the range order_id = o its DELETE scanned
RangeLocked(s, o) == \E t \in Sessions \ {s} : InGap(t, o)

\* another transaction's uncommitted UPDATE moves a row from or to number n
NumberLocked(s, n) ==
  \E t \in Sessions \ {s} :
    /\ pc[t] = "u_commit"
    /\ "order_number" \in Changed(loaded[t], req[t])
    /\ Exists(oid[t])
    /\ n \in {req[t].order_number, orders[oid[t]].order_number}

\* ---------------------------------------------------------------- sessions

\* the handler returns or raises: the session closes, and what it had not
\* committed is rolled back
Finish(s, outcome) ==
  /\ pc' = [pc EXCEPT ![s] = "idle"]
  /\ oid' = [oid EXCEPT ![s] = 0]
  /\ req' = [req EXCEPT ![s] = NoRow]
  /\ loaded' = [loaded EXCEPT ![s] = NoRow]
  /\ pend' = [pend EXCEPT ![s] = {}]
  /\ res' = [res EXCEPT ![s] = outcome]

\* the handler goes on to its next statement
Goto(s, label, o, r, l, p) ==
  /\ pc' = [pc EXCEPT ![s] = label]
  /\ oid' = [oid EXCEPT ![s] = o]
  /\ req' = [req EXCEPT ![s] = r]
  /\ loaded' = [loaded EXCEPT ![s] = l]
  /\ pend' = [pend EXCEPT ![s] = p]
  /\ res' = [res EXCEPT ![s] = NoRes]

\* after its last commit a handler reads the rows back for the response; the
\* read gives them, or raises (another request has deleted them meanwhile)
Responses == {"ok", "no_response"}

\* the handler ends after its last commit
Respond(s) ==
  \E outcome \in Responses :
    /\ outcome = "ok" => Exists(oid[s])
    /\ Finish(s, outcome)

\* mutant of NotFound: the handler returns where it should raise
NotFoundReturns(s) == Finish(s, "ok")

\* raise HTTPException(status_code=404, detail="Order not found")
NotFound(s) == Finish(s, "404")

\* the response of GET /orders/{order_id}: the row and its products
GetOrder(o) ==
  IF Exists(o)
    THEN [status |-> 200, id |-> o,
          order_number |-> orders[o].order_number,
          date |-> orders[o].date,
          final_price |-> orders[o].final_price,
          products |-> { [id |-> i] @@ items[i] : i \in ProductsOf(o) }]
    ELSE [status |-> 404]

\* the response of GET /orders
GetOrders == { GetOrder(o) : o \in DOMAIN orders }

Init ==
  /\ orders = << >>
  /\ items = << >>
  /\ nextOrderId = 1
  /\ nextItemId = 1
  /\ pc = [s \in Sessions |-> "idle"]
  /\ oid = [s \in Sessions |-> 0]
  /\ req = [s \in Sessions |-> NoRow]
  /\ loaded = [s \in Sessions |-> NoRow]
  /\ pend = [s \in Sessions |-> {}]
  /\ res = [s \in Sessions |-> NoRes]
  /\ sent = [s \in Sessions |-> NoneSent]

\* get_orders
ListOrders(s) ==
  /\ pc[s] = "idle"
  /\ Finish(s, "ok")
  /\ UNCHANGED <<orders, items, nextOrderId, nextItemId>>

\* get_order
Get(s, o) ==
  /\ pc[s] = "idle"
  /\ IF GetOrder(o).status = 200 THEN Finish(s, "ok") ELSE NotFound(s)
  /\ UNCHANGED <<orders, items, nextOrderId, nextItemId>>

\* create_order, to the first commit: INSERT INTO order, COMMIT
CreateInsert(s, r) ==
  /\ pc[s] = "idle"
  /\ ~NumberLocked(s, r.order_number)
  /\ IF NumberTaken(r.order_number, 0)
       THEN /\ Finish(s, "duplicate_insert")
            /\ UNCHANGED <<orders, nextOrderId>>
       ELSE /\ nextOrderId <= MaxOrderId
            /\ orders' = orders @@ (nextOrderId :> Order(r))
            /\ nextOrderId' = nextOrderId + 1
            /\ Goto(s, "c_refresh", nextOrderId, r, NoRow, {})
  /\ UNCHANGED <<items, nextItemId>>

\* create_order: session.refresh(db_order)
CreateRefresh(s) ==
  /\ pc[s] = "c_refresh"
  /\ IF Exists(oid[s])
       THEN Goto(s, "c_items", oid[s], req[s], NoRow, {})
       ELSE Finish(s, "error")
  /\ UNCHANGED <<orders, items, nextOrderId, nextItemId>>

\* create_order, the loop, the second commit (INSERT INTO orderproduct, COMMIT)
\* and the response
CreateItems(s, ps) ==
  /\ pc[s] = "c_items"
  /\ ps # << >> => ~RangeLocked(s, oid[s])
  /\ IF ps # << >> /\ ~ParentExists(oid[s])
       THEN /\ Finish(s, "foreign_key_insert")
            /\ UNCHANGED <<items, nextItemId>>
       ELSE /\ nextItemId + Len(ps) - 1 <= MaxItemId
            /\ items' = items @@ NewItems(oid[s], ps)
            /\ nextItemId' = nextItemId + Len(ps)
            /\ Respond(s)
  /\ UNCHANGED <<orders, nextOrderId>>

\* update_order: session.get and the three assignments
UpdateLoad(s, o, r) ==
  /\ pc[s] = "idle"
  /\ IF Exists(o)
       THEN Goto(s, "u_flush", o, r, orders[o], {})
       ELSE NotFound(s)
  /\ UNCHANGED <<orders, items, nextOrderId, nextItemId>>

\* update_order, Query.delete(): the flush (UPDATE order), DELETE FROM orderproduct
UpdateFlush(s) ==
  /\ pc[s] = "u_flush"
  /\ Changed(loaded[s], req[s]) # {} => ~RowLocked(s, oid[s])
  /\ "order_number" \in Changed(loaded[s], req[s])
       => ~NumberLocked(s, req[s].order_number)
  /\ IF Changed(loaded[s], req[s]) # {} /\ ~Exists(oid[s])
       THEN Finish(s, "error")
       ELSE IF /\ "order_number" \in Changed(loaded[s], req[s])
               /\ NumberTaken(req[s].order_number, oid[s])
              THEN Finish(s, "duplicate_update")
              ELSE /\ ~ItemsLocked(s, oid[s])
                   /\ Goto(s, "u_commit", oid[s], req[s], loaded[s], ProductsOf(oid[s]))
  /\ UNCHANGED <<orders, items, nextOrderId, nextItemId>>

\* update_order, the loop, the commit (INSERT INTO orderproduct, COMMIT),
\* session.refresh(order) and the response
UpdateCommit(s, ps) ==
  /\ pc[s] = "u_commit"
  /\ ps # << >> => ~RangeLocked(s, oid[s])
  /\ IF ps # << >> /\ ~ParentExists(oid[s])
       THEN /\ Finish(s, "foreign_key_insert")
            /\ UNCHANGED <<orders, items, nextItemId>>
       ELSE /\ nextItemId + Len(ps) - 1 <= MaxItemId
            /\ orders' = IF Exists(oid[s])
                           THEN [orders EXCEPT ![oid[s]] = Updated(@, loaded[s], req[s])]
                           ELSE orders
            /\ items' = Remove(items, pend[s]) @@ NewItems(oid[s], ps)
            /\ nextItemId' = nextItemId + Len(ps)
            /\ Respond(s)
  /\ UNCHANGED nextOrderId

\* delete_order: session.get, the select of its products, session.delete
DeleteLoad(s, o) ==
  /\ pc[s] = "idle"
  /\ IF Exists(o)
       THEN Goto(s, "d_commit", o, NoRow, NoRow, ProductsOf(o))
       ELSE NotFound(s)
  /\ UNCHANGED <<orders, items, nextOrderId, nextItemId>>

\* delete_order, the commit: DELETE FROM orderproduct, DELETE FROM order, COMMIT
DeleteCommit(s) ==
  /\ pc[s] = "d_commit"
  /\ ~RowLocked(s, oid[s])
  /\ ~ItemsLocked(s, oid[s])
  /\ IF StillReferenced(oid[s], pend[s])
       THEN /\ Finish(s, "foreign_key_delete")
            /\ UNCHANGED <<orders, items>>
       ELSE /\ items' = Remove(items, pend[s])
            /\ orders' = Remove(orders, {oid[s]})
            /\ Finish(s, "ok")
  /\ UNCHANGED <<nextOrderId, nextItemId>>

\* a statement of the handler raises (the store is unreachable, the
\* transaction is chosen as a deadlock victim, a lock wait times out): the
\* exception propagates and the open transaction is rolled back
Fail(s) ==
  /\ pc[s] # "idle"
  /\ Finish(s, "error")
  /\ UNCHANGED <<orders, items, nextOrderId, nextItemId>>

\* one step of session s, its requests drawn from Fields and Lists
Step(s, Fields, Lists) ==
  \/ ListOrders(s) /\ UNCHANGED sent
  \/ \E o \in RequestIds : Get(s, o) /\ UNCHANGED sent
  \/ \E r \in Fields : CreateInsert(s, r) /\ UNCHANGED sent
  \/ CreateRefresh(s) /\ UNCHANGED sent
  \/ \E ps \in Lists : CreateItems(s, ps) /\ UNCHANGED sent
  \/ \E o \in RequestIds, r \in Fields : UpdateLoad(s, o, r) /\ UNCHANGED sent
  \/ UpdateFlush(s) /\ UNCHANGED sent
  \/ \E ps \in Lists : UpdateCommit(s, ps) /\ UNCHANGED sent
  \/ \E o \in RequestIds : DeleteLoad(s, o) /\ UNCHANGED sent
  \/ DeleteCommit(s) /\ UNCHANGED sent
  \/ Fail(s) /\ UNCHANGED sent

\* two sessions, any requests at any time
Next == \E s \in Sessions : Step(s, SameDay, SameLine)

Spec == Init /\ [][Next]_vars

\* one session, one request after the other
SeqNext == Step("s1", TwoDays, ProductLists)

SeqSpec == Init /\ [][SeqNext]_vars

\* an order that a create_order stored, and one update_order in each session
RaceInit ==
  \E r \in SameDay, ps \in SameLine :
    /\ orders = (1 :> Order(r))
    /\ items = [i \in 1..Len(ps) |-> OrderProduct(1, ps[i])]
    /\ nextOrderId = 2
    /\ nextItemId = Len(ps) + 1
    /\ pc = [s \in Sessions |-> "idle"]
    /\ oid = [s \in Sessions |-> 0]
    /\ req = [s \in Sessions |-> NoRow]
    /\ loaded = [s \in Sessions |-> NoRow]
    /\ pend = [s \in Sessions |-> {}]
    /\ res = [s \in Sessions |-> NoRes]
    /\ sent = [s \in Sessions |-> NoneSent]

RaceNext ==
  \E s \in Sessions :
    \/ \E r \in SameDay :
         /\ res[s] = NoRes
         /\ UpdateLoad(s, 1, r)
         /\ sent' = [sent EXCEPT ![s].fields = r]
    \/ UpdateFlush(s) /\ UNCHANGED sent
    \/ \E ps \in SameLine :
         /\ UpdateCommit(s, ps)
         /\ sent' = [sent EXCEPT ![s].products = ps]
    \/ Fail(s) /\ UNCHANGED sent

RaceSpec == RaceInit /\ [][RaceNext]_vars

\* ---------------------------------------------------------------- claims

\* the (product_id, quantity, unit_price) of a row or of a product of a response
LineOf(row) ==
  [product_id |-> row.product_id, quantity |-> row.quantity,
   unit_price |-> row.unit_price]

\* the products of a response are those of the list ps, each once
SameProducts(products, ps) ==
  /\ Cardinality(products) = Len(ps)
  /\ \A l \in Lines :
       Cardinality({ p \in products : LineOf(p) = l })
         = Cardinality({ k \in 1..Len(ps) : ps[k] = l })

\* the scalar fields of a response are those of r
SameFields(response, r) ==
  /\ response.order_number = r.order_number
  /\ response.date = r.date
  /\ response.final_price = r.final_price

\* the step is one of session s: no step of a session leaves both its place and
\* its outcome as they were, unless it leaves the whole state as it was
Acts(s) == pc'[s] # pc[s] \/ res'[s] # res[s]

\* the step is the first one of a request of session s
Starts(s) == pc[s] = "idle" /\ Acts(s)

\* the steps a handler still has to take before its last commit
Writing == {"c_refresh", "c_items", "u_flush", "u_commit", "d_commit"}
\* the outcomes of a handler that a statement or a commit of its made raise
Raised == {"error", "duplicate_insert", "duplicate_update", "foreign_key_insert",
           "foreign_key_delete"}

\* C1: create_order stores the Order and its line items as one unit: when the
\* handler comes to commit the products of its request, every committed state
\* so far (the one other requests read) that held the new Order held that many
\* line items for it.
C1_CreateIsAtomic ==
  [][\A s \in Sessions, ps \in ProductLists :
       (CreateItems(s, ps) /\ Exists(oid[s]))
         => Cardinality(ProductsOf(oid[s])) >= Len(ps)]_vars

\* C2: a create, replace or delete that raises before its last commit leaves
\* the store as it was before the request: the step that raises changes no
\* row, and no Order row of the failed create is in the store.
C2_AllOrNothing ==
  [][\A s \in Sessions, o \in OrderIds :
       (pc[s] \in Writing /\ oid[s] = o /\ pc'[s] = "idle" /\ res'[s] \in Raised)
         => /\ UNCHANGED store
            /\ pc[s] \in {"c_refresh", "c_items"} => ~Exists(o)']_vars

\* C3: a create whose order_number an Order already holds is refused with the
\* store's duplicate-key error, and the store is unchanged.
C3_DuplicateCreateRefused ==
  [][\A s \in Sessions, r \in SameDay :
       (/\ Starts(s)
        /\ \E o \in DOMAIN orders : orders[o].order_number = r.order_number
        /\ CreateInsert(s, r))
         => /\ res'[s] = "duplicate_insert"
            /\ pc'[s] = "idle"
            /\ UNCHANGED store]_vars

\* an Order holds the number and a create naming it has been refused; with one
\* order ever stored the refused statement is create's INSERT
C3_Witness ==
  /\ nextOrderId = 2
  /\ Cardinality(DOMAIN orders) = 1
  /\ \E s \in Sessions : res[s] = "duplicate_insert"

\* C4: no two Orders of the store have the same order_number.
C4_UniqueOrderNumber ==
  \A o1, o2 \in DOMAIN orders :
    o1 # o2 => orders[o1].order_number # orders[o2].order_number

\* two Orders are stored and a replace that named the other one's number has
\* been refused
C4_Witness ==
  /\ Cardinality(DOMAIN orders) = 2
  /\ \E s \in Sessions : res[s] = "duplicate_update"

\* C5: every stored line item has the order_id of an Order of the store.
C5_LineItemsHaveTheirOrder ==
  \A i \in DOMAIN items : Exists(items[i].order_id)

\* an Order was deleted while a request was about to insert line items for it
C5_Witness ==
  /\ \E s \in Sessions : res[s] = "foreign_key_insert"
  /\ \E o \in OrderIds : o < nextOrderId /\ ~Exists(o)

\* C6: when a create ends well (and no other request came between), a get of
\* the new id gives the scalar fields of the request and exactly its products,
\* each with the new order's id and an id no stored line item had.
C6_CreateThenGet ==
  [][\A o \in OrderIds, ps \in ProductLists :
       (oid["s1"] = o /\ CreateItems("s1", ps) /\ res'["s1"] = "ok")
         => /\ GetOrder(o)'.status = 200
            /\ GetOrder(o)'.id = o
            /\ SameFields(GetOrder(o)', req["s1"])
            /\ SameProducts(GetOrder(o)'.products, ps)
            /\ \A p \in GetOrder(o)'.products :
                 p.order_id = o /\ p.id \notin DOMAIN items]_vars

\* a request has ended well and the newest Order is stored with two different
\* products, the last two line items stored
C6_Witness ==
  /\ res["s1"] = "ok"
  /\ Exists(nextOrderId - 1)
  /\ ProductsOf(nextOrderId - 1) = {nextItemId - 2, nextItemId - 1}
  /\ items[nextItemId - 2].product_id # items[nextItemId - 1].product_id

\* C7: when a replace ends well, a get of the id gives the scalar fields and
\* exactly the products of the request, none of the line items the order had
\* is stored, and the other orders are as they were.
C7_ReplaceThenGet ==
  [][\A s \in Sessions, o \in OrderIds, ps \in ProductLists :
       (oid[s] = o /\ UpdateCommit(s, ps) /\ res'[s] = "ok")
         => /\ GetOrder(o)'.status = 200
            /\ GetOrder(o)'.id = o
            /\ SameFields(GetOrder(o)', req[s])
            /\ SameProducts(GetOrder(o)'.products, ps)
            /\ ProductsOf(o) \cap DOMAIN items' = {}
            /\ \A x \in OrderIds \ {o} : GetOrder(x)' = GetOrder(x)]_vars

\* C8: when a delete ends well, neither the Order nor a line item with its id
\* is stored and the other orders are as they were; and an id that was given
\* out and is not in the store stays out of it (a get of it gives 404).
C8_DeleteRemoves ==
  [][/\ \A s \in Sessions, o \in OrderIds :
          (Acts(s) /\ oid[s] = o /\ DeleteCommit(s) /\ res'[s] = "ok")
            => /\ GetOrder(o)'.status = 404
               /\ ProductsOf(o)' = {}
               /\ \A x \in OrderIds \ {o} : GetOrder(x)' = GetOrder(x)
     /\ \A o \in OrderIds :
          (o < nextOrderId /\ ~Exists(o)) => GetOrder(o)'.status = 404]_vars

\* an Order is gone from the store and another one is there with a line item
C8_Witness ==
  /\ \E s \in Sessions : res[s] = "ok"
  /\ \E o \in OrderIds : o < nextOrderId /\ ~Exists(o)
  /\ \E o \in DOMAIN orders : ProductsOf(o) # {}

\* C9: a get, replace or delete of an id no Order has ends with 404 and
\* changes no row.
C9_MissingIdNotFound ==
  [][\A s \in Sessions :
       Starts(s) => \A o \in RequestIds :
       (/\ o \notin DOMAIN orders
        /\ \/ Get(s, o)
           \/ \E r \in SameDay : UpdateLoad(s, o, r)
           \/ DeleteLoad(s, o))
         => /\ res'[s] = "404"
            /\ pc'[s] = "idle"
            /\ UNCHANGED store]_vars

\* a request named an id whose Order had been deleted, and got 404
C9_Witness ==
  /\ \E s \in Sessions : res[s] = "404"
  /\ \E o \in OrderIds : o < nextOrderId /\ ~Exists(o)

\* C10: when the two replaces of one order have both ended well, the order's
\* products are those of one of the two requests and its scalar fields are
\* those of the same request.
C10_LastWriterWins ==
  (\A s \in Sessions : pc[s] = "idle" /\ res[s] = "ok")
    => \E s \in Sessions :
         /\ SameFields(GetOrder(1), sent[s].fields)
         /\ SameProducts(GetOrder(1).products, sent[s].products)

====
